---------------------------- MODULE Spec2Model ----------------------------
(***************************************************************************)
(* Model of the diagnostic parameter decoder of OpenVehicleDiag,           *)
(* common/src/schema/diag/service.rs: Parameter::get_number (the bit       *)
(* extractor), Parameter::decode_value_to_string,                          *)
(* Parameter::decode_value_to_number, Parameter::can_plot and              *)
(* Parameter::get_unit.                                                    *)
(*                                                                         *)
(* Numbers.  TLC's integers are 32-bit signed, a u32 is not: a u32 is the  *)
(* record [hi, lo] of its two 16-bit halves.  An f32 that holds an integer *)
(* is [neg, hi, lo]: its sign and its magnitude hi * 2^16 + lo, which has  *)
(* at most 24 significant bits.  Text is a sequence of one-character       *)
(* strings.                                                                *)
(***************************************************************************)
EXTENDS Integers, Sequences, FiniteSets, TLC

\* input:  the byte buffer handed to the decode calls
\* param:  the Parameter (unit, start_bit, length_bits, byte_order,
\*         data_format; name and valid_bounds play no part in decoding)
\* op:     the last operation called on param
\* result: what that call returned, or Panic when it unwound to the caller
\* number: the get_number call that operation made, if any
VARIABLES input, param, op, result, number

vars == <<input, param, op, result, number>>

(***************************************************************************)
(* Bounds of the model.                                                    *)
(***************************************************************************)
MaxBufLen == 5

MaxStartBit == 9

MaxLengthBits == 33

(***************************************************************************)
(* Arithmetic helpers.                                                     *)
(***************************************************************************)
Pow2(n) == 2 ^ n

min(a, b) == IF a <= b THEN a ELSE b

\* The outcome of a call that unwinds (a Rust panic) instead of returning a byte.
Unwind == 0 - 1

(***************************************************************************)
(* bit_field: BitField for u8.  Bit 0 is the least significant bit.        *)
(***************************************************************************)
\* u8::get_bits(start..end): the asserts, then the two shifts.
u8_get_bits(byte, start, end) ==
    IF ~(start < 8) \/ ~(end <= 8) \/ ~(start < end)
    THEN Unwind
    ELSE (byte % Pow2(end)) \div Pow2(start)

\* u8::set_bits(start..end, value): the asserts, then mask and or.
u8_set_bits(byte, start, end, value) ==
    IF ~(start < 8) \/ ~(end <= 8) \/ ~(start < end)
    THEN Unwind
    ELSE IF value >= Pow2(end - start)
    THEN Unwind
    ELSE LET low  == byte % Pow2(start)
             high == (byte \div Pow2(end)) * Pow2(end)
         IN  (high + value * Pow2(start) + low) % 256

\* resp[i] of a Rust slice (0-based): an index past the end panics.
slice_index(resp, i) ==
    IF i < Len(resp) THEN resp[i + 1] ELSE Unwind

\* <[u8] as BitArray<u8>>::get_bits(start..end)
slice_get_bits(resp, start, end) ==
    LET len         == end - start
        slice_start == start \div 8
        slice_end   == end \div 8
        bit_start   == start % 8
        bit_end     == end % 8
        first       == slice_index(resp, slice_start)
        second      == slice_index(resp, slice_end)
    IN  IF len > 8 THEN Unwind
        ELSE IF slice_end - slice_start > 1 THEN Unwind
        ELSE IF slice_start = slice_end
        THEN IF first = Unwind THEN Unwind
             ELSE u8_get_bits(first, bit_start, bit_end)
        ELSE IF bit_end = 0
        THEN IF first = Unwind THEN Unwind
             ELSE u8_get_bits(first, bit_start, 8)
        ELSE IF first = Unwind THEN Unwind
        ELSE LET ret == u8_get_bits(first, bit_start, 8)
             IN  IF ret = Unwind \/ second = Unwind THEN Unwind
                 ELSE u8_set_bits(ret, 8 - bit_start, len,
                                  u8_get_bits(second, 0, bit_end))

(***************************************************************************)
(* byteorder: the multi-byte reads of the first 2 or 4 bytes of buf.       *)
(***************************************************************************)
u32(hi, lo) == [hi |-> hi, lo |-> lo]

BigEndian_read_u16(buf) == u32(0, buf[1] * 256 + buf[2])

LittleEndian_read_u16(buf) == u32(0, buf[2] * 256 + buf[1])

BigEndian_read_u32(buf) == u32(buf[1] * 256 + buf[2], buf[3] * 256 + buf[4])

LittleEndian_read_u32(buf) == u32(buf[4] * 256 + buf[3], buf[2] * 256 + buf[1])

(***************************************************************************)
(* Parameter::get_number                                                   *)
(***************************************************************************)
\* The while loop that pushes one chunk per 8 bits of the field; it stops
\* at the first read that unwinds.
RECURSIVE read_chunks(_, _, _, _)
read_chunks(p, resp, start, buf) ==
    IF ~(start < p.length_bits + p.start_bit)
    THEN [buf |-> buf, unwound |-> FALSE]
    ELSE LET max_read == min(p.start_bit + p.length_bits, start + 8)
             chunk    == slice_get_bits(resp, start, max_read)
         IN  IF chunk = Unwind
             THEN [buf |-> buf, unwound |-> TRUE]
             ELSE read_chunks(p, resp, start + 8, Append(buf, chunk))

\* The integer built from the chunks once the loop is done.
assemble(p, buf) ==
    IF Len(buf) >= 4
    THEN IF p.byte_order = "BigEndian"
         THEN BigEndian_read_u32(buf) ELSE LittleEndian_read_u32(buf)
    ELSE IF Len(buf) >= 2
    THEN IF p.byte_order = "BigEndian"
         THEN BigEndian_read_u16(buf) ELSE LittleEndian_read_u16(buf)
    ELSE u32(0, 0)

BitRangeError(buf, reads) ==
    [kind |-> "Err", err |-> "BitRangeError", buf |-> buf, reads |-> reads]

\* get_number as it would be if a failed read ended the loop instead of
\* the call: the chunks read so far are assembled and returned.
get_number_truncating(p, resp) ==
    IF p.length_bits <= 32
    THEN IF p.length_bits <= 8
         THEN LET b == slice_get_bits(resp, p.start_bit,
                                      p.start_bit + p.length_bits)
              IN  [kind |-> "Ok", val |-> u32(0, IF b = Unwind THEN 0 ELSE b),
                   buf |-> <<>>, reads |-> 1]
         ELSE LET r == read_chunks(p, resp, p.start_bit, <<>>)
              IN  [kind |-> "Ok", val |-> assemble(p, r.buf), buf |-> r.buf,
                   reads |-> Len(r.buf) + (IF r.unwound THEN 1 ELSE 0)]
    ELSE BitRangeError(<<>>, 0)

\* get_number as it would be without the test of length_bits against 32:
\* a wide field is only found out by the count of its chunks.
get_number_unguarded(p, resp) ==
    IF p.length_bits <= 8
    THEN LET b == slice_get_bits(resp, p.start_bit,
                                 p.start_bit + p.length_bits)
         IN  IF b = Unwind
             THEN BitRangeError(<<>>, 1)
             ELSE [kind |-> "Ok", val |-> u32(0, b), buf |-> <<>>, reads |-> 1]
    ELSE LET r == read_chunks(p, resp, p.start_bit, <<>>)
         IN  IF r.unwound
             THEN BitRangeError(r.buf, Len(r.buf) + 1)
             ELSE IF Len(r.buf) > 4
             THEN BitRangeError(r.buf, Len(r.buf))
             ELSE [kind |-> "Ok", val |-> assemble(p, r.buf),
                   buf |-> r.buf, reads |-> Len(r.buf)]

\* The result of get_number, with what the call did on the way: buf, the
\* chunk bytes it collected, and reads, the number of get_bits calls it made.
get_number(p, resp) ==
    IF p.length_bits <= 32
    THEN IF p.length_bits <= 8
         THEN LET b == slice_get_bits(resp, p.start_bit,
                                      p.start_bit + p.length_bits)
              IN  IF b = Unwind
                  THEN BitRangeError(<<>>, 1)
                  ELSE [kind |-> "Ok", val |-> u32(0, b),
                        buf |-> <<>>, reads |-> 1]
         ELSE LET r == read_chunks(p, resp, p.start_bit, <<>>)
              IN  IF r.unwound
                  THEN BitRangeError(r.buf, Len(r.buf) + 1)
                  ELSE IF Len(r.buf) > 4
                  THEN BitRangeError(r.buf, Len(r.buf))
                  ELSE [kind |-> "Ok", val |-> assemble(p, r.buf),
                        buf |-> r.buf, reads |-> Len(r.buf)]
    ELSE BitRangeError(<<>>, 0)


(***************************************************************************)
(* f32 arithmetic on integer values.  Every operation rounds its exact     *)
(* result to 24 significant bits, ties to even, as IEEE 754 single         *)
(* precision does.  Magnitudes stay below 2^40 (hi < 2^24).                *)
(***************************************************************************)
RECURSIVE bit_length(_)
bit_length(n) == IF n = 0 THEN 0 ELSE 1 + bit_length(n \div 2)

\* An exact (unrounded) signed integer, as sign and 16-bit-split magnitude.
big(neg, hi, lo) == [neg |-> neg, hi |-> hi, lo |-> lo]

\* An integer of magnitude below 2^30 as an exact value.
big_of_int(n) ==
    LET a == IF n < 0 THEN 0 - n ELSE n
    IN  big(n < 0, a \div 65536, a % 65536)

\* Round an exact value to the nearest f32, ties to even.
round_f32(x) ==
    IF x.hi < 256
    THEN big(x.neg /\ (x.hi # 0 \/ x.lo # 0), x.hi, x.lo)
    ELSE LET s    == bit_length(x.hi) - 8
             q    == x.hi * Pow2(16 - s) + (x.lo \div Pow2(s))
             rem  == x.lo % Pow2(s)
             half == Pow2(s - 1)
             q2   == IF rem > half \/ (rem = half /\ q % 2 = 1)
                     THEN q + 1 ELSE q
         IN  big(x.neg, q2 \div Pow2(16 - s), (q2 % Pow2(16 - s)) * Pow2(s))

\* The exact product of a value and an integer k with |k| < 2^7.
exact_mul(a, k) ==
    LET m == IF k < 0 THEN 0 - k ELSE k
        l == a.lo * m
    IN  big((a.neg /\ k > 0) \/ (~a.neg /\ k < 0 /\ (a.hi # 0 \/ a.lo # 0)),
            a.hi * m + (l \div 65536), l % 65536)

\* The exact sum of a value and an integer o with |o| < 2^24.
exact_add(a, o) ==
    IF a.hi < 16384
    THEN big_of_int((IF a.neg THEN 0 - (a.hi * 65536 + a.lo)
                               ELSE a.hi * 65536 + a.lo) + o)
    ELSE LET t == a.lo + (IF a.neg THEN 0 - o ELSE o)
         IN  big(a.neg, a.hi + (t \div 65536), t % 65536)

\* `n as f32` for a u32 n.
as_f32(n) == round_f32(big(FALSE, n.hi, n.lo))

\* a * k and a + o in f32, for an f32 a and integer-valued f32 operands.
f32_mul(a, k) == round_f32(exact_mul(a, k))

\* a + o with the sign of the offset lost.
f32_add_negated(a, o) == round_f32(exact_add(a, 0 - o))

f32_add(a, o) == round_f32(exact_add(a, o))

\* a >= b and a <= b on f32 values (no NaN among them).
f32_key(a) == <<IF a.neg THEN 0 - a.hi ELSE a.hi, IF a.neg THEN 0 - a.lo ELSE a.lo>>

f32_le(a, b) ==
    LET x == f32_key(a)
        y == f32_key(b)
    IN  x[1] < y[1] \/ (x[1] = y[1] /\ x[2] <= y[2])

f32_ge(a, b) == f32_le(b, a)

(***************************************************************************)
(* Text.  format!("{}", x) for an f32 x prints the shortest decimal digits *)
(* that read back as x, without an exponent and without ".0".              *)
(***************************************************************************)
DigitChar(d) == <<"0", "1", "2", "3", "4", "5", "6", "7", "8", "9">>[d + 1]

HexChar(d) ==
    <<"0", "1", "2", "3", "4", "5", "6", "7",
      "8", "9", "A", "B", "C", "D", "E", "F">>[d + 1]

\* The decimal digits (values, most significant first) of hi * 2^16 + lo.
RECURSIVE big_digits(_, _)
big_digits(hi, lo) ==
    IF hi = 0 /\ lo < 10
    THEN <<lo>>
    ELSE LET t == (hi % 10) * 65536 + lo
         IN  Append(big_digits(hi \div 10, t \div 10), t % 10)

\* The value of a digit sequence, saturating at 10^7.
RECURSIVE sat_value(_, _)
sat_value(ds, acc) ==
    IF ds = <<>> THEN acc
    ELSE sat_value(Tail(ds), min(acc * 10 + Head(ds), 10000000))

\* ds + 1 on a digit sequence.
RECURSIVE digits_inc(_)
digits_inc(ds) ==
    IF ds = <<>> THEN <<1>>
    ELSE IF ds[Len(ds)] < 9
    THEN [ds EXCEPT ![Len(ds)] = @ + 1]
    ELSE Append(digits_inc(SubSeq(ds, 1, Len(ds) - 1)), 0)

\* The shortest digits of an f32 of magnitude 2^24 or more: the first
\* position p, from the top, where cutting the digits at 10^p (down) or
\* cutting and adding 10^p (up) stays inside the rounding interval of the
\* value; minus2 and plus2 are twice the distances to the interval's ends.
RECURSIVE shortest_from(_, _, _, _, _)
shortest_from(ds, p, minus2, plus2, inclusive) ==
    LET n     == Len(ds)
        tail  == SubSeq(ds, n - p + 1, n)
        rem   == sat_value(tail, 0)
        comp  == sat_value([i \in 1..p |-> 9 - tail[i]], 0) + 1
        down  == IF inclusive THEN 2 * rem <= minus2 ELSE 2 * rem < minus2
        up    == IF inclusive THEN 2 * comp <= plus2 ELSE 2 * comp < plus2
        head  == SubSeq(ds, 1, n - p)
        zeros == [i \in 1..p |-> 0]
    IN  IF down \/ up
        THEN IF up /\ (~down \/ rem >= comp)
             THEN digits_inc(head) \o zeros
             ELSE head \o zeros
        ELSE shortest_from(ds, p - 1, minus2, plus2, inclusive)

shortest_digits(x) ==
    IF x.hi < 256
    THEN big_digits(x.hi, x.lo)
    ELSE LET e      == bit_length(x.hi) - 8
             q      == x.hi * Pow2(16 - e) + (x.lo \div Pow2(e))
             minus2 == IF q = Pow2(23) THEN Pow2(e - 1) ELSE Pow2(e)
             ds     == big_digits(x.hi, x.lo)
         IN  shortest_from(ds, Len(ds), minus2, Pow2(e), q % 2 = 0)

\* format!("{}", x) for an f32 x
fmt_f32(x) ==
    LET ds == shortest_digits(x)
    IN  (IF x.neg THEN <<"-">> ELSE <<>>) \o [i \in 1..Len(ds) |-> DigitChar(ds[i])]

\* format!("{:02X?}", bytes) for a byte slice: "[DE, AD]"
RECURSIVE hex_list(_)
hex_list(bytes) ==
    IF bytes = <<>> THEN <<>>
    ELSE <<HexChar(Head(bytes) \div 16), HexChar(Head(bytes) % 16)>>
         \o (IF Len(bytes) > 1 THEN <<",", " ">> ELSE <<>>)
         \o hex_list(Tail(bytes))

fmt_hex(bytes) == <<"[">> \o hex_list(bytes) \o <<"]">>

(***************************************************************************)
(* String::from_utf8_lossy: a character per well-formed UTF-8 sequence,    *)
(* U+FFFD per maximal ill-formed part.  A printable ASCII character is     *)
(* itself (the double quote, backslash and backquote excepted); any other    *)
(* character is the token "U+<code point>".                                *)
(***************************************************************************)
AsciiPrintable ==
    <<
      " ", "!", "U+34", "#", "$", "%", "&", "'", "(", ")", "*", "+",
      ",", "-", ".", "/", "0", "1", "2", "3", "4", "5", "6", "7",
      "8", "9", ":", ";", "<", "=", ">", "?", "@", "A", "B", "C",
      "D", "E", "F", "G", "H", "I", "J", "K", "L", "M", "N", "O",
      "P", "Q", "R", "S", "T", "U", "V", "W", "X", "Y", "Z", "[",
      "U+92", "]", "^", "_", "U+96", "a", "b", "c", "d", "e", "f", "g",
      "h", "i", "j", "k", "l", "m", "n", "o", "p", "q", "r", "s",
      "t", "u", "v", "w", "x", "y", "z", "{", "|", "}", "~"
    >>

char(cp) ==
    IF cp >= 32 /\ cp <= 126 THEN AsciiPrintable[cp - 31]
    ELSE "U+" \o ToString(cp)

REPLACEMENT_CHARACTER == char(65533)

is_cont(bytes, i, lo, hi) ==
    i <= Len(bytes) /\ bytes[i] >= lo /\ bytes[i] <= hi

\* The length in bytes of the well-formed sequence at the head of bytes,
\* or, negated, of the ill-formed part to replace.
utf8_step(bytes) ==
    LET b  == bytes[1]
        l2 == IF b = 224 THEN 160 ELSE IF b = 240 THEN 144 ELSE 128
        h2 == IF b = 237 THEN 159 ELSE IF b = 244 THEN 143 ELSE 191
    IN  IF b < 128 THEN 1
        ELSE IF b >= 194 /\ b <= 223
        THEN IF is_cont(bytes, 2, 128, 191) THEN 2 ELSE 0 - 1
        ELSE IF b >= 224 /\ b <= 239
        THEN IF ~is_cont(bytes, 2, l2, h2) THEN 0 - 1
             ELSE IF ~is_cont(bytes, 3, 128, 191) THEN 0 - 2
             ELSE 3
        ELSE IF b >= 240 /\ b <= 244
        THEN IF ~is_cont(bytes, 2, l2, h2) THEN 0 - 1
             ELSE IF ~is_cont(bytes, 3, 128, 191) THEN 0 - 2
             ELSE IF ~is_cont(bytes, 4, 128, 191) THEN 0 - 3
             ELSE 4
        ELSE 0 - 1

\* The code point of the well-formed sequence of n bytes at the head of bytes.
utf8_code_point(bytes, n) ==
    IF n = 1 THEN bytes[1]
    ELSE IF n = 2 THEN (bytes[1] % 32) * 64 + (bytes[2] % 64)
    ELSE IF n = 3
    THEN (bytes[1] % 16) * 4096 + (bytes[2] % 64) * 64 + (bytes[3] % 64)
    ELSE (bytes[1] % 8) * 262144 + (bytes[2] % 64) * 4096
         + (bytes[3] % 64) * 64 + (bytes[4] % 64)

RECURSIVE from_utf8_lossy(_)
from_utf8_lossy(bytes) ==
    IF bytes = <<>> THEN <<>>
    ELSE LET n == utf8_step(bytes)
         IN  IF n > 0
             THEN <<char(utf8_code_point(bytes, n))>>
                  \o from_utf8_lossy(SubSeq(bytes, n + 1, Len(bytes)))
             ELSE <<REPLACEMENT_CHARACTER>>
                  \o from_utf8_lossy(SubSeq(bytes, 1 - n, Len(bytes)))

(***************************************************************************)
(* Results and options.                                                    *)
(***************************************************************************)
Ok(v) == [kind |-> "Ok", val |-> v]

Err(e) == [kind |-> "Err", err |-> e]

\* The call did not return: it unwound into the caller.
Panic == [kind |-> "Panic"]

None == [some |-> FALSE]

Some(v) == [some |-> TRUE, val |-> v]

unwrap_or(o, default) == IF o.some THEN o.val ELSE default

NotCalled == [kind |-> "NotCalled", buf |-> <<>>, reads |-> 0]

(***************************************************************************)
(* Parameter::get_unit                                                     *)
(***************************************************************************)
\* get_unit as it would be without the test for the empty unit.
get_unit_always(p) == Some(p.unit)

get_unit(p) == IF p.unit = <<>> THEN None ELSE Some(p.unit)

\* The "For numbers" tail of decode_value_to_string.
push_unit(p, text) ==
    LET end == get_unit(p)
    IN  IF end.some THEN text \o <<" ">> \o end.val ELSE text

(***************************************************************************)
(* Parameter::decode_value_to_string                                       *)
(***************************************************************************)
\* &input[from..to]: the byte slice; the indexing unwinds when the range
\* is not one of the buffer.
slice(inp, from, to) ==
    IF from > to \/ to > Len(inp)
    THEN [unwound |-> TRUE, bytes |-> <<>>]
    ELSE [unwound |-> FALSE, bytes |-> SubSeq(inp, from + 1, to)]

\* The loop as it would be with the inclusive range test
\* start <= raw <= end.
RECURSIVE table_lookup_inclusive(_, _)
table_lookup_inclusive(t, raw) ==
    IF t = <<>>
    THEN <<"U", "n", "d", "e", "f", "i", "n", "e", "d", " ", "(">>
         \o fmt_f32(raw) \o <<")">>
    ELSE IF f32_le(round_f32(big_of_int(Head(t).start)), raw)
            /\ f32_ge(round_f32(big_of_int(Head(t).end)), raw)
    THEN Head(t).name
    ELSE table_lookup_inclusive(Tail(t), raw)

\* The for loop over the entries of a Table.
RECURSIVE table_lookup(_, _)
table_lookup(t, raw) ==
    IF t = <<>>
    THEN <<"U", "n", "d", "e", "f", "i", "n", "e", "d", " ", "(">>
         \o fmt_f32(raw) \o <<")">>
    ELSE IF f32_ge(round_f32(big_of_int(Head(t).start)), raw)
            /\ f32_le(round_f32(big_of_int(Head(t).end)), raw)
    THEN Head(t).name
    ELSE table_lookup(Tail(t), raw)

decode_value_to_string(p, inp) ==
    LET f          == p.data_format
        start_byte == p.start_bit \div 8
        end_byte   == (p.start_bit + p.length_bits) \div 8
        n          == get_number(p, inp)
    IN  CASE f.tag = "HexDump" ->
               LET s == slice(inp, start_byte, min(end_byte, Len(inp)))
               IN  [res |-> IF s.unwound THEN Panic ELSE Ok(fmt_hex(s.bytes)),
                    num |-> NotCalled]
          [] f.tag = "String" ->
               LET s == slice(inp, start_byte, end_byte)
               IN  [res |-> IF s.unwound THEN Panic
                            ELSE Ok(from_utf8_lossy(s.bytes)),
                    num |-> NotCalled]
          [] f.tag = "Bool" ->
               [res |-> IF n.kind = "Err" THEN Err(n.err)
                        ELSE IF n.val = u32(0, 0)
                        THEN Ok(unwrap_or(f.neg_name, <<"F", "a", "l", "s", "e">>))
                        ELSE Ok(unwrap_or(f.pos_name, <<"T", "r", "u", "e">>)),
                num |-> n]
          [] f.tag = "Table" ->
               [res |-> IF n.kind = "Err" THEN Err(n.err)
                        ELSE Ok(table_lookup(f.table, as_f32(n.val))),
                num |-> n]
          [] f.tag = "Identical" ->
               [res |-> IF n.kind = "Err" THEN Err(n.err)
                        ELSE Ok(push_unit(p, fmt_f32(as_f32(n.val)))),
                num |-> n]
          [] f.tag = "Linear" ->
               [res |-> IF n.kind = "Err" THEN Err(n.err)
                        ELSE Ok(push_unit(p, fmt_f32(
                                 f32_add(f32_mul(as_f32(n.val), f.multiplier),
                                         f.offset)))),
                num |-> n]
          [] f.tag \in {"ScaleLinear", "RatFunc", "ScaleRatFunc",
                        "TableInterpretation", "CompuCode"} ->
               [res |-> Err("NotImplemented"), num |-> NotCalled]

(***************************************************************************)
(* Parameter::decode_value_to_number                                       *)
(***************************************************************************)
\* decode_value_to_number as it would be with Identical decoded like its
\* string path, as the raw number.
decode_value_to_number_identical(p, inp) ==
    LET f == p.data_format
        n == get_number(p, inp)
    IN  CASE f.tag \in {"HexDump", "String", "Table"} ->
               [res |-> Err("DecodeNotSupported"), num |-> NotCalled]
          [] f.tag \in {"Bool", "Identical"} ->
               [res |-> IF n.kind = "Err" THEN Err(n.err)
                        ELSE Ok(as_f32(n.val)),
                num |-> n]
          [] f.tag = "Linear" ->
               [res |-> IF n.kind = "Err" THEN Err(n.err)
                        ELSE Ok(f32_add(f32_mul(as_f32(n.val), f.multiplier),
                                        f.offset)),
                num |-> n]
          [] f.tag \in {"ScaleLinear", "RatFunc", "ScaleRatFunc",
                        "TableInterpretation", "CompuCode"} ->
               [res |-> Err("NotImplemented"), num |-> NotCalled]

decode_value_to_number(p, inp) ==
    LET f == p.data_format
        n == get_number(p, inp)
    IN  CASE f.tag \in {"HexDump", "String", "Table"} ->
               [res |-> Err("DecodeNotSupported"), num |-> NotCalled]
          [] f.tag = "Bool" ->
               [res |-> IF n.kind = "Err" THEN Err(n.err)
                        ELSE Ok(as_f32(n.val)),
                num |-> n]
          [] f.tag = "Linear" ->
               [res |-> IF n.kind = "Err" THEN Err(n.err)
                        ELSE Ok(f32_add(f32_mul(as_f32(n.val), f.multiplier),
                                        f.offset)),
                num |-> n]
          [] f.tag \in {"Identical", "ScaleLinear", "RatFunc", "ScaleRatFunc",
                        "TableInterpretation", "CompuCode"} ->
               [res |-> Err("NotImplemented"), num |-> NotCalled]

(***************************************************************************)
(* Parameter::can_plot                                                     *)
(***************************************************************************)
\* can_plot as it would be with Bool left out of the plottable formats.
can_plot_without_bool(p) ==
    p.data_format.tag \in {"Identical", "Linear"}

can_plot(p) ==
    CASE p.data_format.tag \in {"Bool", "Identical", "Linear"} -> TRUE
      [] p.data_format.tag \in {"HexDump", "String", "Table", "ScaleLinear",
                                "RatFunc", "ScaleRatFunc",
                                "TableInterpretation", "CompuCode"} -> FALSE

(***************************************************************************)
(* The inputs: schemas and buffers.                                        *)
(***************************************************************************)
\* Byte i (1-based) of the sample payloads: DE AD BE EF ... and 2A 01 00 80 ...
payload_byte(k, i) ==
    IF k = 1 THEN <<222, 173, 190, 239>>[((i - 1) % 4) + 1]
             ELSE <<42, 1, 0, 128>>[((i - 1) % 4) + 1]

Buffers ==
    {[i \in 1..n |-> payload_byte(k, i)] : k \in {1, 2}, n \in 0..MaxBufLen}

Units == {<<>>, <<"k", "m", "/", "h">>}

BoolFormats ==
    {[tag |-> "Bool", pos_name |-> None, neg_name |-> None],
     [tag |-> "Bool", pos_name |-> Some(<<"O", "n">>),
                      neg_name |-> Some(<<"O", "f", "f">>)]}

TableFormats ==
    {[tag |-> "Table",
      table |-> <<[start |-> 0, end |-> 100, name |-> <<"R", "a", "n", "g", "e">>],
                  [start |-> 42, end |-> 42, name |-> <<"F", "i", "r", "s", "t">>],
                  [start |-> 42, end |-> 42, name |-> <<"N", "e", "x", "t">>],
                  [start |-> 10, end |-> 10, name |-> <<"T", "e", "n">>]>>],
     [tag |-> "Table",
      table |-> <<[start |-> 5, end |-> 1, name |-> <<"D", "o", "w", "n">>]>>]}

LinearFormats ==
    {[tag |-> "Linear", multiplier |-> c[1], offset |-> c[2]] :
        c \in {<<2, 1>>, <<1, 0>>, <<1, 0 - 40>>}}

Unimplemented ==
    {[tag |-> "ScaleLinear"], [tag |-> "RatFunc"], [tag |-> "ScaleRatFunc"],
     [tag |-> "TableInterpretation"],
     [tag |-> "CompuCode", code |-> <<"x", "*", "2">>]}

DataFormats ==
    {[tag |-> "HexDump"], [tag |-> "String"], [tag |-> "Identical"]}
    \cup BoolFormats \cup TableFormats \cup LinearFormats \cup Unimplemented

Parameters(formats, units) ==
    [unit : units, start_bit : 0..MaxStartBit, length_bits : 0..MaxLengthBits,
     byte_order : {"BigEndian", "LittleEndian"}, data_format : formats]

(***************************************************************************)
(* The state machine: a parameter and a buffer, and the calls on them.     *)
(***************************************************************************)
\* One format per tag that extracts a number from the buffer.
NumericFormats ==
    {[tag |-> "Bool", pos_name |-> None, neg_name |-> None],
     [tag |-> "Identical"],
     [tag |-> "Linear", multiplier |-> 2, offset |-> 1]}
    \cup {f \in TableFormats : Len(f.table) > 1}

\* The empty buffer and the payloads at full length.
WholeBuffers == {b \in Buffers : Len(b) \in {0, MaxBufLen}}

Fresh ==
    /\ op = "new"
    /\ result = [kind |-> "None"]
    /\ number = NotCalled

\* Every format and unit, on the whole payloads.
Init ==
    /\ input \in WholeBuffers
    /\ param \in Parameters(DataFormats, Units)
    /\ Fresh

\* The formats that call get_number, on every prefix of the payloads.
InitBits ==
    /\ input \in Buffers
    /\ param \in Parameters(NumericFormats, {<<>>})
    /\ Fresh

GetNumber ==
    /\ op' = "get_number"
    /\ result' = get_number(param, input)
    /\ number' = result'
    /\ UNCHANGED <<input, param>>

DecodeValueToString ==
    LET r == decode_value_to_string(param, input)
    IN  /\ op' = "decode_value_to_string"
        /\ result' = r.res
        /\ number' = r.num
        /\ UNCHANGED <<input, param>>

DecodeValueToNumber ==
    LET r == decode_value_to_number(param, input)
    IN  /\ op' = "decode_value_to_number"
        /\ result' = r.res
        /\ number' = r.num
        /\ UNCHANGED <<input, param>>

CanPlot ==
    /\ op' = "can_plot"
    /\ result' = Ok(can_plot(param))
    /\ number' = NotCalled
    /\ UNCHANGED <<input, param>>

Next == GetNumber \/ DecodeValueToString \/ DecodeValueToNumber \/ CanPlot

Spec == Init /\ [][Next]_vars

SpecBits == InitBits /\ [][Next]_vars

(***************************************************************************)
(* Properties.                                                             *)
(***************************************************************************)
tag == param.data_format.tag

NumericTags == {"Bool", "Table", "Identical", "Linear"}

\* The field lies inside the buffer.
SpanInside == param.start_bit + param.length_bits <= 8 * Len(input)

\* The last operation was a decode call of a format that extracts a number.
NumericDecode ==
    \/ op = "decode_value_to_string" /\ tag \in NumericTags
    \/ op = "decode_value_to_number" /\ tag \in {"Bool", "Linear"}

EndsWith(text, suffix) ==
    /\ Len(text) >= Len(suffix)
    /\ SubSeq(text, Len(text) - Len(suffix) + 1, Len(text)) = suffix

\* C1: for Bool, Table, Identical and Linear, a field of at most 32 bits
\* whose span runs past the end of the buffer makes the decode call return
\* Err(BitRangeError): no panic leaves the call, and no value built from
\* the chunks read before the end is returned.
C1_SpanPastEndIsBitRangeError ==
    (NumericDecode /\ param.length_bits <= 32 /\ ~SpanInside)
        => result = Err("BitRangeError")

\* A 32-bit-or-less field that starts inside the buffer and ends outside:
\* chunks were read before the read that failed.
C1_Witness ==
    /\ op = "decode_value_to_string"
    /\ tag = "Linear"
    /\ param.length_bits <= 32
    /\ ~SpanInside
    /\ number.reads > 1
    /\ result = Err("BitRangeError")

\* C2: for HexDump and String, decode_value_to_string returns Ok or Err for
\* every buffer and field, never a panic, and String decodes the same
\* clamped byte range start_bit/8 .. min((start_bit+length_bits)/8, len)
\* that HexDump prints.
C2_SlicingNeverPanics ==
    (op = "decode_value_to_string" /\ tag \in {"HexDump", "String"})
        => /\ result.kind \in {"Ok", "Err"}
           /\ (tag = "String" /\ param.start_bit \div 8 <= Len(input))
                 => result = Ok(from_utf8_lossy(
                        SubSeq(input, (param.start_bit \div 8) + 1,
                               min((param.start_bit + param.length_bits) \div 8,
                                   Len(input)))))

\* Bit k of the buffer, bit 0 being the least significant bit of byte 0.
RefBit(k) == (input[(k \div 8) + 1] \div (2 ^ (k % 8))) % 2

RECURSIVE RefBits(_, _)
RefBits(from, width) ==
    IF width = 0 THEN 0 ELSE RefBit(from) + 2 * RefBits(from + 1, width - 1)

\* Chunk j of the field: its bits 8j .. 8j+7, as far as the field goes.
RefChunk(j) ==
    RefBits(param.start_bit + 8 * j, min(8, param.length_bits - 8 * j))

\* The byte of weight 256^k of the field's value, all chunks counted.
RefByte(k) ==
    LET n == (param.length_bits + 7) \div 8
    IN  IF k >= n THEN 0
        ELSE IF param.byte_order = "BigEndian" THEN RefChunk(n - 1 - k)
        ELSE RefChunk(k)

RefValue == u32(RefByte(2) + 256 * RefByte(3), RefByte(0) + 256 * RefByte(1))

\* C3: for a field of 1 to 32 bits inside the buffer, get_number returns
\* Ok(n), n being the bit-by-bit extraction of the field with all of its
\* chunks combined under the byte order.
C3_ExtractionMatchesReference ==
    (op = "get_number" /\ param.length_bits \in 1..32 /\ SpanInside)
        => result.kind = "Ok" /\ result.val = RefValue

\* C4: a field of 17 to 24 bits (three chunks) makes get_number return
\* Err(BitRangeError).
C4_ThreeChunksIsBitRangeError ==
    (op = "get_number" /\ param.length_bits \in 17..24)
        => result.kind = "Err" /\ result.err = "BitRangeError"

\* C5: for Bool, Table, Identical and Linear, a field of more than 32 bits
\* makes the decode call return Err(BitRangeError) without one read of the
\* buffer; and a field of at most 32 bits never collects more than 4 chunks.
C5_WideFieldIsBitRangeError ==
    /\ (NumericDecode /\ param.length_bits > 32)
          => result = Err("BitRangeError") /\ number.reads = 0
    /\ (number.kind # "NotCalled" /\ param.length_bits <= 32)
          => Len(number.buf) <= 4

\* A 33-bit field that lies inside the buffer.
C5_Witness ==
    /\ op = "decode_value_to_string"
    /\ tag = "Bool"
    /\ param.length_bits > 32
    /\ SpanInside
    /\ result = Err("BitRangeError")

\* decode_value_to_string of the same parameter with its unit emptied.
WithoutUnit ==
    decode_value_to_string([param EXCEPT !.unit = <<>>], input).res

UnitSuffix == IF param.unit = <<>> THEN <<>> ELSE <<" ">> \o param.unit

\* C6, as stated: for Bool, Identical and Linear a successful
\* decode_value_to_string ends with a space and the unit if and only if the
\* unit is not empty; for every other format the unit is never appended.
C6_UnitSuffixBoolIdenticalLinear ==
    (op = "decode_value_to_string" /\ result.kind = "Ok")
        => IF tag \in {"Bool", "Identical", "Linear"}
           THEN EndsWith(result.val, <<" ">> \o param.unit) <=> param.unit # <<>>
           ELSE result = WithoutUnit

\* C6, amended: the same for Identical and Linear only, where the result is
\* the number's text followed by the suffix; for every other format, Bool
\* included, the unit is never appended.
C6_UnitSuffixIdenticalLinear ==
    (op = "decode_value_to_string" /\ result.kind = "Ok")
        => IF tag \in {"Identical", "Linear"}
           THEN /\ EndsWith(result.val, <<" ">> \o param.unit)
                       <=> param.unit # <<>>
                /\ result.val = WithoutUnit.val \o UnitSuffix
           ELSE result = WithoutUnit

C6_Witness ==
    /\ op = "decode_value_to_string"
    /\ tag = "Identical"
    /\ param.unit # <<>>
    /\ result.kind = "Ok"
    /\ EndsWith(result.val, <<" ">> \o param.unit)

\* C7: the error of decode_value_to_number is fixed by the format tag, for
\* every buffer and field: DecodeNotSupported for HexDump, String and
\* Table, NotImplemented for Identical and the five unimplemented formats;
\* only Bool and Linear return Ok or BitRangeError.
C7_NumberErrorsByTag ==
    op = "decode_value_to_number"
        => /\ tag \in {"HexDump", "String", "Table"}
                 => result = Err("DecodeNotSupported")
           /\ tag \in {"Identical", "ScaleLinear", "RatFunc", "ScaleRatFunc",
                       "TableInterpretation", "CompuCode"}
                 => result = Err("NotImplemented")
           /\ tag \in {"Bool", "Linear"}
                 => result.kind = "Ok" \/ result = Err("BitRangeError")
           /\ (result.kind = "Ok" \/ result = Err("BitRangeError"))
                 => tag \in {"Bool", "Linear"}

\* A Table whose field runs past the buffer: still DecodeNotSupported.
C7_Witness ==
    /\ op = "decode_value_to_number"
    /\ tag = "Table"
    /\ ~SpanInside
    /\ param.length_bits <= 32
    /\ result = Err("DecodeNotSupported")

\* The raw value of the last get_number call as an integer; 2^24 stands
\* for every value from 2^24 on, above all bounds of the tables.
Raw ==
    LET r == as_f32(number.val)
    IN  IF r.hi < 256 THEN r.hi * 65536 + r.lo ELSE 2 ^ 24

\* What the Table format is to return: the name of the first entry with
\* start >= raw and end <= raw, or "Undefined (raw)".
TableText ==
    LET t   == param.data_format.table
        hit == {i \in 1..Len(t) : t[i].start >= Raw /\ t[i].end <= Raw}
    IN  IF hit = {}
        THEN <<"U", "n", "d", "e", "f", "i", "n", "e", "d", " ", "(">>
             \o fmt_f32(as_f32(number.val)) \o <<")">>
        ELSE t[CHOOSE i \in hit : \A j \in hit : i <= j].name

TableDecoded ==
    op = "decode_value_to_string" /\ tag = "Table" /\ result.kind = "Ok"

\* C8, as stated: Table returns the name of the first entry with
\* start >= r and end <= r, "Undefined (r)" when there is none; so the
\* entry returned has start = r = end, and an entry with start < end is
\* never returned.
C8_TableExactMatchOnly ==
    TableDecoded
        => /\ result.val = TableText
           /\ \A i \in 1..Len(param.data_format.table) :
                 LET e == param.data_format.table[i]
                 IN  /\ result.val = e.name => e.start = Raw /\ e.end = Raw
                     /\ e.start < e.end => result.val # e.name

\* C8, amended: the entry returned has end <= r <= start, which is
\* start = r = end only when its start <= end; an entry with start > end
\* is returned for every r from its end to its start.
C8_TableMatch ==
    TableDecoded
        => /\ result.val = TableText
           /\ \A i \in 1..Len(param.data_format.table) :
                 LET e == param.data_format.table[i]
                 IN  /\ result.val = e.name => e.end <= Raw /\ Raw <= e.start
                     /\ (result.val = e.name /\ e.start <= e.end)
                           => e.start = Raw /\ e.end = Raw
                     /\ e.start < e.end => result.val # e.name

\* Two entries match 42; the first in list order is returned.
C8_Witness ==
    /\ TableDecoded
    /\ Raw = 42
    /\ result.val = <<"F", "i", "r", "s", "t">>

LinearDecoded(o) == op = o /\ tag = "Linear" /\ result.kind = "Ok"

\* v * multiplier + offset, exactly, for the raw value v of the last
\* get_number call.
ExactLinear ==
    exact_add(exact_mul(big(FALSE, number.val.hi, number.val.lo),
                        param.data_format.multiplier),
              param.data_format.offset)

\* The text decode_value_to_string gives the value decode_value_to_number
\* returns.
RendersNumber ==
    LET n == decode_value_to_number(param, input).res
    IN  n.kind = "Ok" /\ result.val = fmt_f32(n.val) \o UnitSuffix

\* C9, as stated: for Linear and every raw value v of a field inside the
\* buffer, decode_value_to_number returns exactly v * multiplier + offset,
\* and decode_value_to_string renders that value.
C9_LinearExact ==
    /\ LinearDecoded("decode_value_to_number") => result.val = ExactLinear
    /\ LinearDecoded("decode_value_to_string") => RendersNumber

\* C9, amended: decode_value_to_number returns exactly
\* v * multiplier + offset when v, v * multiplier and the sum are at most
\* 2^24 in magnitude, the integers an f32 holds exactly; and
\* decode_value_to_string renders the value decode_value_to_number returns.
C9_LinearExactWithinF32 ==
    /\ (LinearDecoded("decode_value_to_number")
           /\ (number.val.hi < 256 \/ number.val = u32(256, 0)))
          => LET v == number.val.hi * 65536 + number.val.lo
                 p == v * param.data_format.multiplier
                 x == p + param.data_format.offset
                 a == IF x < 0 THEN 0 - x ELSE x
             IN  (p <= 2 ^ 24 /\ a <= 2 ^ 24)
                    => result.val = [neg |-> x < 0, hi |-> a \div 65536,
                                     lo |-> a % 65536]
    /\ LinearDecoded("decode_value_to_string") => RendersNumber

\* Linear{multiplier: 2, offset: 1} of the raw value 10 is 21.
C9_Witness ==
    /\ LinearDecoded("decode_value_to_number")
    /\ param.data_format.multiplier = 2
    /\ param.data_format.offset = 1
    /\ number.val = u32(0, 10)
    /\ result.val = [neg |-> FALSE, hi |-> 0, lo |-> 21]

\* C10: whenever decode_value_to_number returns Ok, can_plot is true; and
\* can_plot is fixed by the format tag, true exactly for Bool, Identical
\* and Linear.
C10_CanPlotCoversNumber ==
    /\ (op = "decode_value_to_number" /\ result.kind = "Ok") => can_plot(param)
    /\ op = "can_plot" => result.val = (tag \in {"Bool", "Identical", "Linear"})

C10_Witness ==
    /\ op = "decode_value_to_number"
    /\ tag = "Bool"
    /\ result.kind = "Ok"
    /\ can_plot(param)
=============================================================================
